---- MODULE Spec2Model ----
(***************************************************************************)
(* Model of pupil_src/shared_modules/video_exporter.py:                    *)
(*   - export_processed_h264, the generator that re-encodes a frame range  *)
(*     of a source video and yields (status, percent) progress events;     *)
(*   - VideoExporter, the plugin that starts one background task per       *)
(*     export job, cancels tasks and polls them for progress.              *)
(* File_Source (video_capture), the av encoder and Task_Proxy              *)
(* (background_helper) are collaborators outside this file; they are       *)
(* modelled by the contract the generator and the plugin rely on.          *)
(*                                                                         *)
(* Percent values are exact rationals <<numerator, denominator>>.          *)
(* Timestamps are integers in units of 1/TsPerSecond second.               *)
(***************************************************************************)
EXTENDS Integers, Sequences, FiniteSets, TLC

VARIABLES
    tasks,          \* every Task_Proxy created so far, by task id (1..Len)
    export_tasks,   \* self.export_tasks: the registry, a sequence of task ids
    status,         \* self.status
    progress,       \* self.progress, a rational <<n, d>>
    output,         \* self.output
    last_call,      \* the VideoExporter method the host called last
    fault           \* the exception that call raised to its caller, or "none"

vars == <<tasks, export_tasks, status, progress, output, last_call, fault>>

-----------------------------------------------------------------------------
(* Bounds of the model *)

MaxFrom == 1        \* export_from_index ranges over 0..MaxFrom
MaxSpan == 21       \* export_to_index - export_from_index ranges over 0..MaxSpan
MaxT0 == 1          \* timestamp of the first frame read ranges over 0..MaxT0
MaxDelta == 1       \* timestamp gap between successive frames: 0..MaxDelta
MaxDelay == 1       \* frames the encoder may hold back: 0..MaxDelay
MaxTasks == 2       \* tasks created in one behaviour
TsPerSecond == 1000 \* resolution of the modelled timestamps

(* Program constants *)

update_rate == 10
time_base_den == 65535

NoTime == 0 - 1     \* start_time = None

-----------------------------------------------------------------------------
(* Rationals *)

Pct(n, d) == <<n, d>>
PctLeq(a, b) == a[1] * b[2] <= b[1] * a[2]
PctEq(a, b) == a[1] * b[2] = b[1] * a[2]

Ev(s, p) == [status |-> s, percent |-> p]

Last(s) == s[Len(s)]

\* int(x) of Python: truncation towards zero of a / b, b > 0
TruncDiv(a, b) == IF a >= 0 THEN a \div b ELSE 0 - ((0 - a) \div b)

-----------------------------------------------------------------------------
(* Task_Proxy: the background task that runs the generator *)

NewTask ==
    [ pc |-> "start",
      \* File_Source
      capture_created |-> FALSE, initialised |-> FALSE, capture_open |-> FALSE,
      target_frame_idx |-> 0, current_frame_idx |-> 0,
      decoded |-> 0, frame_ts |-> 0, eos |-> FALSE,
      \* locals of export_processed_h264
      export_from_index |-> 0, export_to_index |-> 0,
      next_update_idx |-> 0, start_time |-> NoTime, pts |-> 0,
      \* output container and encoder
      container_open |-> FALSE, container_opened |-> FALSE,
      enc_delay |-> 0, enc_buf |-> <<>>, muxed |-> <<>>,
      \* history of the run
      encoded |-> <<>>, first_ts |-> NoTime, first_pts |-> NoTime,
      prev_pts |-> NoTime, yielded |-> <<>>,
      \* Task_Proxy
      target_video_loc |-> "none",
      pipe |-> <<>>, should_terminate |-> FALSE, canceled |-> FALSE,
      completed |-> FALSE, cancel_calls |-> 0 ]

\* The wrapper around the generator: a yielded datum is sent to the pipe,
\* unless termination was requested, in which case the generator is abandoned
\* where it is suspended.
Yield(t, ev, at) ==
    IF t.should_terminate
    THEN [t EXCEPT !.yielded = Append(@, ev), !.pc = "cancelled"]
    ELSE [t EXCEPT !.yielded = Append(@, ev), !.pipe = Append(@, ev), !.pc = at]

\* Task_Proxy.fetch: the events produced since the last call.
Fetched(t) == IF t.completed \/ t.canceled THEN <<>> ELSE t.pipe

AfterFetch(t) ==
    IF t.completed \/ t.canceled THEN t
    ELSE [t EXCEPT !.pipe = <<>>, !.completed = (t.pc = "done")]

\* Task_Proxy.cancel: termination is requested of a task that has not been
\* seen to complete, and the events it has not delivered are dropped.
TaskCancel(t) ==
    [t EXCEPT !.should_terminate = (@ \/ ~t.completed),
              !.canceled = (@ \/ ~t.completed),
              !.pipe = <<>>,
              !.cancel_calls = @ + 1]

-----------------------------------------------------------------------------
(* export_processed_h264, one operator per stretch of code *)

\* line 45
StepStart(t) == Yield(t, Ev("Converting video", Pct(1, 10)), "y_start")

\* StepOpenSource with the output container opened before the source is
\* checked
StepOpenSource_OpensFirst(t, init, from, to, delay) ==
    LET o == [t EXCEPT !.capture_created = TRUE,
                       !.container_open = TRUE, !.container_opened = TRUE]
    IN  IF ~init
        THEN Yield(o, Ev("Converting scene video failed", Pct(0, 1)), "y_fail")
        ELSE [o EXCEPT !.initialised = TRUE, !.capture_open = TRUE,
                       !.export_from_index = from, !.export_to_index = to,
                       !.start_time = NoTime, !.enc_delay = delay,
                       !.target_frame_idx = from,
                       !.next_update_idx = from + update_rate,
                       !.pc = "loop"]

\* lines 46-72
StepOpenSource(t, init, from, to, delay) ==
    IF ~init
    THEN Yield([t EXCEPT !.capture_created = TRUE],
               Ev("Converting scene video failed", Pct(0, 1)), "y_fail")
    ELSE [t EXCEPT !.capture_created = TRUE,
                   !.initialised = TRUE, !.capture_open = TRUE,
                   !.export_from_index = from, !.export_to_index = to,
                   !.start_time = NoTime,
                   !.container_open = TRUE, !.container_opened = TRUE,
                   !.enc_delay = delay,
                   !.target_frame_idx = from,
                   !.next_update_idx = from + update_rate,
                   !.pc = "loop"]

\* line 49
StepReturnFail(t) == [t EXCEPT !.pc = "done"]

\* video_stream.encode(av_frame) and target_container.mux(packet), lines 89-91
Encode(t, idx) ==
    LET buf == Append(t.enc_buf, idx)
    IN  IF Len(buf) > t.enc_delay
        THEN [t EXCEPT !.enc_buf = Tail(buf), !.muxed = Append(@, Head(buf)),
                       !.encoded = Append(@, idx)]
        ELSE [t EXCEPT !.enc_buf = buf, !.encoded = Append(@, idx)]

\* Progress with the division done after every frame
Progress_EveryFrame(t) ==
    IF t.export_to_index = t.export_from_index
    THEN [t EXCEPT !.pc = "raised"]
    ELSE IF t.current_frame_idx >= t.next_update_idx
         THEN Yield(t,
                    Ev("Converting video",
                       Pct(10 * (t.export_to_index - t.export_from_index)
                             + 90 * (t.current_frame_idx - t.export_from_index),
                           t.export_to_index - t.export_from_index)),
                    "y_loop")
         ELSE t

\* lines 93-99, up to the yield
Progress(t) ==
    IF t.current_frame_idx >= t.next_update_idx
    THEN IF t.export_to_index = t.export_from_index
         THEN [t EXCEPT !.pc = "raised"]   \* ZeroDivisionError
         ELSE Yield(t,
                    Ev("Converting video",
                       Pct(10 * (t.export_to_index - t.export_from_index)
                             + 90 * (t.current_frame_idx - t.export_from_index),
                           t.export_to_index - t.export_from_index)),
                    "y_loop")
    ELSE t

\* Stamp with the origin tested for truth instead of for None
Stamp_Truthy(t, ts) ==
    LET start == IF t.start_time = NoTime \/ t.start_time = 0
                 THEN ts ELSE t.start_time
        p == TruncDiv((ts - start) * time_base_den, TsPerSecond)
    IN  [t EXCEPT !.start_time = start, !.pts = p,
                  !.first_ts = IF @ = NoTime THEN ts ELSE @,
                  !.first_pts = IF @ = NoTime THEN p ELSE @,
                  !.prev_pts = IF t.encoded = <<>> THEN NoTime ELSE t.pts]

\* Stamp with the origin and the frame timestamp exchanged in the difference
Stamp_Reversed(t, ts) ==
    LET start == IF t.start_time = NoTime THEN ts ELSE t.start_time
        p == TruncDiv((start - ts) * time_base_den, TsPerSecond)
    IN  [t EXCEPT !.start_time = start, !.pts = p,
                  !.first_ts = IF @ = NoTime THEN ts ELSE @,
                  !.first_pts = IF @ = NoTime THEN p ELSE @,
                  !.prev_pts = IF t.encoded = <<>> THEN NoTime ELSE t.pts]

\* lines 82-87
Stamp(t, ts) ==
    LET start == IF t.start_time = NoTime THEN ts ELSE t.start_time
        p == TruncDiv((ts - start) * time_base_den, TsPerSecond)
    IN  [t EXCEPT !.start_time = start, !.pts = p,
                  !.first_ts = IF @ = NoTime THEN ts ELSE @,
                  !.first_pts = IF @ = NoTime THEN p ELSE @,
                  !.prev_pts = IF t.encoded = <<>> THEN NoTime ELSE t.pts]

\* StepLoop with the range end excluded
StepLoop_Exclusive(t, eof, t0, dt) ==
    IF eof
    THEN [t EXCEPT !.eos = TRUE, !.pc = "flush"]
    ELSE LET idx == t.target_frame_idx
             ts == IF t.decoded = 0 THEN t0 ELSE t.frame_ts + dt
             got == [t EXCEPT !.current_frame_idx = idx,
                              !.target_frame_idx = idx + 1,
                              !.decoded = @ + 1, !.frame_ts = ts]
         IN  IF idx >= t.export_to_index
             THEN [got EXCEPT !.pc = "flush"]
             ELSE Progress(Encode(Stamp(got, ts), idx))

\* one iteration of the frame loop, lines 73-98
StepLoop(t, eof, t0, dt) ==
    IF eof
    THEN [t EXCEPT !.eos = TRUE, !.pc = "flush"]   \* EndofVideoError
    ELSE LET idx == t.target_frame_idx
             ts == IF t.decoded = 0 THEN t0 ELSE t.frame_ts + dt
             got == [t EXCEPT !.current_frame_idx = idx,
                              !.target_frame_idx = idx + 1,
                              !.decoded = @ + 1, !.frame_ts = ts]
         IN  IF idx > t.export_to_index
             THEN [got EXCEPT !.pc = "flush"]
             ELSE Progress(Encode(Stamp(got, ts), idx))

\* StepResumeLoop with the next update index left where it was
StepResumeLoop_NoAdvance(t) == [t EXCEPT !.pc = "loop"]

\* line 99, after the generator is resumed
StepResumeLoop(t) ==
    [t EXCEPT !.next_update_idx = @ + update_rate, !.pc = "loop"]

\* StepFlush that leaves the flush loop without asking the encoder
StepFlush_Skipped(t) == [t EXCEPT !.pc = "close"]

\* StepFlush on an encoder that never runs out of packets
StepFlush_NoDrain(t) ==
    IF t.enc_buf # <<>> THEN t ELSE [t EXCEPT !.pc = "close"]

\* one iteration of the flush loop, lines 101-106
StepFlush(t) ==
    IF t.enc_buf # <<>>
    THEN [t EXCEPT !.enc_buf = Tail(@), !.muxed = Append(@, Head(t.enc_buf))]
    ELSE [t EXCEPT !.pc = "close"]

\* line 108
StepClose(t) == [t EXCEPT !.container_open = FALSE, !.pc = "cleanup"]

\* StepCleanup with the source left open
StepCleanup_Skipped(t) == [t EXCEPT !.pc = "complete"]

\* line 109
StepCleanup(t) == [t EXCEPT !.capture_open = FALSE, !.pc = "complete"]

\* StepComplete with the completion event left on the 0..1 scale
StepComplete_Fraction(t) ==
    Yield(t, Ev("Converting video completed", Pct(1, 1)), "y_done")

\* line 110
StepComplete(t) ==
    Yield(t, Ev("Converting video completed", Pct(100, 1)), "y_done")

\* the generator returns after its last yield
StepFinish(t) == [t EXCEPT !.pc = "done"]


-----------------------------------------------------------------------------
(* Inputs of a run: what File_Source, the index lookup and the encoder       *)
(* answer.  A step reads only the fields its code asks for.                  *)

RunInput(init, from, to, delay, eof, t0, dt) ==
    [init |-> init, from |-> from, to |-> to, delay |-> delay,
     eof |-> eof, t0 |-> t0, dt |-> dt]

\* export_processed_h264 from one suspension point (or statement) to the next
Step(t, in) ==
    CASE t.pc = "start" -> StepStart(t)
      [] t.pc = "y_start" -> StepOpenSource(t, in.init, in.from, in.to, in.delay)
      [] t.pc = "y_fail" -> StepReturnFail(t)
      [] t.pc = "loop" -> StepLoop(t, in.eof, in.t0, in.dt)
      [] t.pc = "y_loop" -> StepResumeLoop(t)
      [] t.pc = "flush" -> StepFlush(t)
      [] t.pc = "close" -> StepClose(t)
      [] t.pc = "cleanup" -> StepCleanup(t)
      [] t.pc = "complete" -> StepComplete(t)
      [] t.pc = "y_done" -> StepFinish(t)
      [] OTHER -> t

\* the generator is suspended at a yield, or has ended
Resting == {"y_start", "y_fail", "y_loop", "y_done", "done", "cancelled", "raised"}
Ended == {"done", "cancelled", "raised"}

\* the generator runs on to its next yield
RECURSIVE Run(_, _)
Run(t, in) == IF t.pc \in Resting THEN t ELSE Run(Step(t, in), in)

-----------------------------------------------------------------------------
(* VideoExporter *)

Self ==
    [tasks |-> tasks, export_tasks |-> export_tasks, status |-> status,
     progress |-> progress, output |-> output, fault |-> "none"]

\* lines 172-175
RECURSIVE CancelFrom(_, _, _)
CancelFrom(ts, reg, k) ==
    IF k > Len(reg) THEN ts
    ELSE CancelFrom([ts EXCEPT ![reg[k]] = TaskCancel(@)], reg, k + 1)

\* cancel with only the first registered task cancelled
cancel_FirstOnly(x) ==
    [x EXCEPT !.tasks = IF x.export_tasks = <<>> THEN @
                        ELSE [@ EXCEPT ![x.export_tasks[1]] = TaskCancel(@)],
              !.export_tasks = <<>>]

\* cancel with the cancelled tasks left in the registry
cancel_KeepsRegistry(x) ==
    [x EXCEPT !.tasks = CancelFrom(x.tasks, x.export_tasks, 1)]

cancel(x) ==
    [x EXCEPT !.tasks = CancelFrom(x.tasks, x.export_tasks, 1),
              !.export_tasks = <<>>]

\* lines 180-181
cleanup(x) == cancel(x)

\* lines 183-215; has_file: the glob of line 200 matched a file.  The
\* recording and the export directory are the same in every call, so that
\* output_name alone tells the output files apart.
add_export_job(x, has_file, output_name) ==
    IF ~has_file
    THEN [x EXCEPT !.output = "im_dir", !.fault = "IndexError"]
    ELSE [x EXCEPT !.output = "im_dir",
                   !.tasks = Append(@, [NewTask EXCEPT
                                           !.target_video_loc = output_name]),
                   !.export_tasks = Append(@, Len(x.tasks) + 1)]

\* lines 217-219: abstract; an exporter's export_data starts the video job
\* of the scene video
export_data(x, has_file) == add_export_job(x, has_file, "world")

\* on_notify with the new export started before the old ones are cancelled
on_notify_StartsFirst(x, subject, has_file) ==
    IF subject = "should_export"
    THEN cancel(export_data(x, has_file))
    ELSE x

\* lines 149-152
on_notify(x, subject, has_file) ==
    IF subject = "should_export"
    THEN export_data(cancel(x), has_file)
    ELSE x

\* PollFrom with the first of the fetched events taken instead of the last
RECURSIVE PollFrom_First(_, _)
PollFrom_First(x, k) ==
    IF k > Len(x.export_tasks) THEN x
    ELSE LET i == x.export_tasks[k]
             recent == Fetched(x.tasks[i])
             t1 == AfterFetch(x.tasks[i])
             x1 == [x EXCEPT !.tasks[i] = t1,
                             !.status = IF recent # <<>>
                                        THEN Head(recent).status ELSE @,
                             !.progress = IF recent # <<>>
                                          THEN Head(recent).percent ELSE @]
             x2 == IF t1.canceled
                   THEN [x1 EXCEPT !.status = "Export has been canceled",
                                   !.progress = Pct(0, 1)]
                   ELSE x1
         IN  PollFrom_First(x2, k + 1)

\* lines 221-229
RECURSIVE PollFrom(_, _)
PollFrom(x, k) ==
    IF k > Len(x.export_tasks) THEN x
    ELSE LET i == x.export_tasks[k]
             recent == Fetched(x.tasks[i])
             t1 == AfterFetch(x.tasks[i])
             x1 == [x EXCEPT !.tasks[i] = t1,
                             !.status = IF recent # <<>>
                                        THEN Last(recent).status ELSE @,
                             !.progress = IF recent # <<>>
                                          THEN Last(recent).percent ELSE @]
             x2 == IF t1.canceled
                   THEN [x1 EXCEPT !.status = "Export has been canceled",
                                   !.progress = Pct(0, 1)]
                   ELSE x1
         IN  PollFrom(x2, k + 1)

\* recent_events that also drops the tasks seen to complete from the registry
recent_events_Prunes(x) ==
    LET y == PollFrom(x, 1)
    IN  [y EXCEPT !.export_tasks = SelectSeq(@, LAMBDA i : ~y.tasks[i].completed)]

recent_events(x) == PollFrom(x, 1)

-----------------------------------------------------------------------------
(* Actions *)

Called(x, name) ==
    /\ tasks' = x.tasks
    /\ export_tasks' = x.export_tasks
    /\ status' = x.status
    /\ progress' = x.progress
    /\ output' = x.output
    /\ fault' = x.fault
    /\ last_call' = name

Init ==
    /\ tasks = <<>>
    /\ export_tasks = <<>>
    /\ status = "Not exporting"
    /\ progress = Pct(0, 1)
    /\ output = "Not set yet"
    /\ last_call = "__init__"
    /\ fault = "none"

\* the host calls no method of a plugin after its cleanup
Alive == last_call # "cleanup"

\* the output name of the exporter's video job
OutputNames == {"world"}

AddExportJob ==
    \E has_file \in BOOLEAN, output_name \in OutputNames :
        /\ Alive
        /\ has_file => Len(tasks) < MaxTasks
        /\ Called(add_export_job(Self, has_file, output_name), "add_export_job")

Notified(subject) ==
    \E has_file \in BOOLEAN :
        /\ Alive
        /\ (subject = "should_export" /\ has_file) => Len(tasks) < MaxTasks
        /\ Called(on_notify(Self, subject, has_file), "on_notify")

OnNotify == \E subject \in {"should_export", "other"} : Notified(subject)

Cancel == Alive /\ Called(cancel(Self), "cancel")

Cleanup == Alive /\ Called(cleanup(Self), "cleanup")

RecentEvents == Alive /\ Called(recent_events(Self), "recent_events")

\* What the exporter's jobs read: a source that opens or not and holds every
\* frame of a range that ends inside the second update interval.
JobInput(init) == RunInput(init, 0, 2 * update_rate - 1, 0, FALSE, 0, 1)

\* a background process runs its generator to the next yield
Background ==
    \E i \in 1..Len(tasks), init \in BOOLEAN :
        /\ tasks[i].pc \notin Ended
        /\ tasks' = [tasks EXCEPT
                       ![i] = Run(Step(@, JobInput(init)), JobInput(init))]
        /\ UNCHANGED <<export_tasks, status, progress, output, last_call, fault>>

Next ==
    \/ AddExportJob
    \/ OnNotify
    \/ Cancel
    \/ Cleanup
    \/ RecentEvents
    \/ Background

Spec == Init /\ [][Next]_vars

-----------------------------------------------------------------------------
(* One run of export_processed_h264, statement by statement *)

InitPipeline ==
    /\ tasks = <<[NewTask EXCEPT !.target_video_loc = "world"]>>
    /\ export_tasks = <<1>>
    /\ status = "Not exporting"
    /\ progress = Pct(0, 1)
    /\ output = "im_dir"
    /\ last_call = "add_export_job"
    /\ fault = "none"

Advance(i, t) ==
    /\ tasks' = [tasks EXCEPT ![i] = t]
    /\ UNCHANGED <<export_tasks, status, progress, output, last_call, fault>>

Start ==
    \E i \in 1..Len(tasks) :
        tasks[i].pc = "start" /\ Advance(i, StepStart(tasks[i]))

OpenSource ==
    \E i \in 1..Len(tasks), init \in BOOLEAN, from \in 0..MaxFrom,
       span \in (0 - 1)..MaxSpan, delay \in 0..MaxDelay :
        /\ tasks[i].pc = "y_start"
        /\ Advance(i, StepOpenSource(tasks[i], init, from, from + span, delay))

ReturnFail ==
    \E i \in 1..Len(tasks) :
        tasks[i].pc = "y_fail" /\ Advance(i, StepReturnFail(tasks[i]))

\* the source ends here or returns its next frame; frame k is stamped k
Loop ==
    \E i \in 1..Len(tasks), eof \in BOOLEAN :
        /\ tasks[i].pc = "loop"
        /\ Advance(i, StepLoop(tasks[i], eof, tasks[i].target_frame_idx, 1))

ResumeLoop ==
    \E i \in 1..Len(tasks) :
        tasks[i].pc = "y_loop" /\ Advance(i, StepResumeLoop(tasks[i]))

Flush ==
    \E i \in 1..Len(tasks) :
        tasks[i].pc = "flush" /\ Advance(i, StepFlush(tasks[i]))

Close ==
    \E i \in 1..Len(tasks) :
        tasks[i].pc = "close" /\ Advance(i, StepClose(tasks[i]))

CleanupSource ==
    \E i \in 1..Len(tasks) :
        tasks[i].pc = "cleanup" /\ Advance(i, StepCleanup(tasks[i]))

Complete ==
    \E i \in 1..Len(tasks) :
        tasks[i].pc = "complete" /\ Advance(i, StepComplete(tasks[i]))

Finish ==
    \E i \in 1..Len(tasks) :
        tasks[i].pc = "y_done" /\ Advance(i, StepFinish(tasks[i]))

NextPipeline ==
    \/ Start
    \/ OpenSource
    \/ ReturnFail
    \/ Loop
    \/ ResumeLoop
    \/ Flush
    \/ Close
    \/ CleanupSource
    \/ Complete
    \/ Finish
    \/ Cancel

SpecPipeline == InitPipeline /\ [][NextPipeline]_vars

\* the background process runs the generator whenever it has a statement left
Generator ==
    \/ Start
    \/ OpenSource
    \/ ReturnFail
    \/ Loop
    \/ ResumeLoop
    \/ Flush
    \/ Close
    \/ CleanupSource
    \/ Complete
    \/ Finish

SpecPipelineLive == SpecPipeline /\ WF_vars(Generator)

-----------------------------------------------------------------------------
(* One run over a range of at most one update interval, on a source with    *)
(* any non-decreasing frame timestamps                                      *)

OpenShort ==
    \E i \in 1..Len(tasks), init \in BOOLEAN, from \in 0..MaxFrom,
       span \in 0..update_rate :
        /\ tasks[i].pc = "y_start"
        /\ Advance(i, StepOpenSource(tasks[i], init, from, from + span, 0))

LoopStamped ==
    \E i \in 1..Len(tasks), eof \in BOOLEAN, t0 \in 0..MaxT0, dt \in 0..MaxDelta :
        /\ tasks[i].pc = "loop"
        /\ Advance(i, StepLoop(tasks[i], eof, t0, dt))

NextStamps ==
    \/ Start
    \/ OpenShort
    \/ ReturnFail
    \/ LoopStamped
    \/ ResumeLoop
    \/ Flush
    \/ Close
    \/ CleanupSource
    \/ Complete
    \/ Finish
    \/ Cancel

SpecStamps == InitPipeline /\ [][NextStamps]_vars


-----------------------------------------------------------------------------
(* Properties of export_processed_h264 *)

TaskIds == 1..Len(tasks)

Percents(ys) == [k \in 1..Len(ys) |-> ys[k].percent]

NonDecreasing(ps) ==
    \A k \in 1..(Len(ps) - 1) : PctLeq(ps[k], ps[k + 1])

FailureEvent == Ev("Converting scene video failed", Pct(0, 1))
CompletionEvent == Ev("Converting video completed", Pct(100, 1))

\* the generator ran to its end after opening the source
Completed(t) == t.pc = "done" /\ t.initialised

\* C1 as claimed: in every run, whatever the outcome of opening the source,
\* the yielded percents never decrease, and the last event of a run that ends
\* by itself is at 100.
C1_Original ==
    \A i \in TaskIds :
        /\ NonDecreasing(Percents(tasks[i].yielded))
        /\ tasks[i].pc = "done" =>
               PctEq(Last(tasks[i].yielded).percent, Pct(100, 1))

\* the events of a run without its failure event, if it has one
BeforeFailure(ys) ==
    IF ys # <<>> /\ Last(ys) = FailureEvent
    THEN SubSeq(ys, 1, Len(ys) - 1) ELSE ys

\* C1, amended: the yielded percents never decrease, except that the failure
\* event at 0 of a source that does not open follows the opening event at 0.1;
\* a run that opened its source and ended by itself has its last event at 100.
C1_Amended ==
    \A i \in TaskIds :
        /\ NonDecreasing(Percents(BeforeFailure(tasks[i].yielded)))
        /\ Completed(tasks[i]) =>
               PctEq(Last(tasks[i].yielded).percent, Pct(100, 1))

\* a run over two update intervals has ended: opening event, two progress
\* events, completion
C1_Witness ==
    \E i \in TaskIds : Completed(tasks[i]) /\ Len(tasks[i].yielded) >= 4

\* C3 as claimed: a generator abandoned at a yield holds neither the source
\* nor the output container open.
C3_Original ==
    \A i \in TaskIds :
        tasks[i].pc = "cancelled" =>
            ~tasks[i].capture_open /\ ~tasks[i].container_open

\* every frame up to the range end was returned by the source
HasAllFrames(t) == t.target_frame_idx > t.export_to_index

Range(a, b) == [k \in 1..(b - a + 1) |-> a + k - 1]

\* C4: no frame past export_to_index is ever encoded, and a completed run
\* whose source returned every frame of the range has encoded exactly the
\* indices export_from_index..export_to_index, once each, in order.
C4_InclusiveRange ==
    \A i \in TaskIds :
        /\ \A k \in 1..Len(tasks[i].encoded) :
               tasks[i].encoded[k] <= tasks[i].export_to_index
        /\ (Completed(tasks[i]) /\ HasAllFrames(tasks[i])) =>
               tasks[i].encoded =
                   Range(tasks[i].export_from_index, tasks[i].export_to_index)

C4_Witness ==
    \E i \in TaskIds :
        /\ Completed(tasks[i]) /\ HasAllFrames(tasks[i])
        /\ tasks[i].export_from_index > 0
        /\ Len(tasks[i].encoded) > update_rate

\* C5: once a frame has been encoded, the first frame's pts is 0 and the time
\* origin is the timestamp of the first frame of the loop, whatever came after.
C5_FirstPtsZero ==
    \A i \in TaskIds :
        tasks[i].encoded # <<>> =>
            /\ tasks[i].first_pts = 0
            /\ tasks[i].start_time = tasks[i].first_ts

\* several frames encoded, from a range that starts inside the source, and
\* the timestamps have moved on from the first one
C5_Witness ==
    \E i \in TaskIds :
        /\ Len(tasks[i].encoded) >= 3
        /\ tasks[i].export_from_index > 0
        /\ tasks[i].frame_ts > tasks[i].first_ts
        /\ tasks[i].pts > 0

\* C6: when the source does not initialise, the run's events are the opening
\* event and then the failure event at 0, the generator is at that yield or
\* has ended, and no container was opened and no frame decoded or encoded.
C6_InitFailure ==
    \A i \in TaskIds :
        (tasks[i].capture_created /\ ~tasks[i].initialised) =>
            /\ tasks[i].yielded = <<Ev("Converting video", Pct(1, 10)), FailureEvent>>
            /\ tasks[i].pc \in {"y_fail", "done", "cancelled"}
            /\ ~tasks[i].container_opened
            /\ tasks[i].decoded = 0
            /\ tasks[i].encoded = <<>>

\* the generator has returned after the failure event
C6_Witness ==
    \E i \in TaskIds :
        /\ tasks[i].capture_created /\ ~tasks[i].initialised
        /\ tasks[i].pc = "done"

\* C10: once the completion event has been yielded, it is at 100, it is the
\* last event, and the container is closed and the source released.
C10_CompletionLast ==
    \A i \in TaskIds :
        \A k \in 1..Len(tasks[i].yielded) :
            tasks[i].yielded[k].status = "Converting video completed" =>
                /\ k = Len(tasks[i].yielded)
                /\ tasks[i].yielded[k] = CompletionEvent
                /\ ~tasks[i].container_open
                /\ ~tasks[i].capture_open

\* a run completed after the source ended inside the range
C10_Witness ==
    \E i \in TaskIds :
        /\ Completed(tasks[i])
        /\ tasks[i].eos /\ ~HasAllFrames(tasks[i])
        /\ tasks[i].encoded # <<>>
        /\ Last(tasks[i].yielded) = CompletionEvent


-----------------------------------------------------------------------------
(* Properties of VideoExporter *)

Registered == {export_tasks[k] : k \in 1..Len(export_tasks)}

\* cancel() has removed a task from the registry and none was added since
CancelledAndEmpty ==
    /\ export_tasks = <<>>
    /\ \E i \in TaskIds : tasks[i].cancel_calls > 0

\* C2 as claimed: the recent_events() poll that follows a cancel() of
\* registered tasks leaves the status at the cancellation message and the
\* progress at 0.
C2_Original ==
    [][(last_call = "cancel" /\ CancelledAndEmpty /\ RecentEvents) =>
          (status' = "Export has been canceled" /\ PctEq(progress', Pct(0, 1)))]_vars

\* C7 as claimed: add_export_job, called without a matching source file or
\* with one, does not end in a fault raised to its caller.
C7_Original == last_call = "add_export_job" => fault = "none"

\* C8: cancel() and cleanup() call cancel once on every task of the registry,
\* on no other task, and leave the registry empty.
C8_CancelAll ==
    [][(Cancel \/ Cleanup) =>
          /\ export_tasks' = <<>>
          /\ Len(tasks') = Len(tasks)
          /\ \A i \in TaskIds :
                 tasks'[i].cancel_calls =
                     tasks[i].cancel_calls + (IF i \in Registered THEN 1 ELSE 0)]_vars

\* two registered tasks, one of them seen to complete, were cancelled by one
\* call
C8_Witness ==
    /\ last_call = "cancel"
    /\ export_tasks = <<>>
    /\ Len(tasks) = 2
    /\ \A i \in TaskIds : tasks[i].cancel_calls = 1
    /\ tasks[1].completed /\ ~tasks[2].completed
    /\ tasks[2].pc = "start"

\* C9: a should_export notification calls cancel on every registered task and
\* leaves in the registry only the task it started itself, which it has not
\* cancelled; a notification with another subject changes neither the tasks,
\* the registry, the status nor the progress.
C9_NotifyReplaces ==
    [][/\ Notified("should_export") =>
              /\ \A i \in Registered :
                     tasks'[i].cancel_calls = tasks[i].cancel_calls + 1
              /\ \A k \in 1..Len(export_tasks') :
                     /\ export_tasks'[k] > Len(tasks)
                     /\ tasks'[export_tasks'[k]].cancel_calls = 0
                     /\ ~tasks'[export_tasks'[k]].should_terminate
              /\ fault' = "none" => export_tasks' = <<Len(tasks) + 1>>
       /\ Notified("other") =>
              UNCHANGED <<tasks, export_tasks, status, progress>>]_vars

\* a second notification has replaced the task of the first
C9_Witness ==
    /\ last_call = "on_notify"
    /\ Len(tasks) = 2
    /\ export_tasks = <<2>>
    /\ tasks[1].cancel_calls = 1 /\ tasks[1].should_terminate
    /\ tasks[2].cancel_calls = 0

\* the registered tasks, in registration order, whose fetch returns events
Reporting ==
    {k \in 1..Len(export_tasks) : Fetched(tasks[export_tasks[k]]) # <<>>}

\* C11: a recent_events() poll fetches nothing from a task that cancel() was
\* called on, and leaves the status and the progress either as they were or
\* at the last event fetched from a registered task that was never cancelled.
C11_NoCancelledEvents ==
    [][RecentEvents =>
          /\ \A i \in TaskIds :
                 tasks[i].cancel_calls > 0 => tasks'[i] = tasks[i]
          /\ \/ status' = status /\ progress' = progress
             \/ \E k \in Reporting :
                    /\ tasks[export_tasks[k]].cancel_calls = 0
                    /\ status' = Last(tasks[export_tasks[k]].pipe).status
                    /\ progress' = Last(tasks[export_tasks[k]].pipe).percent]_vars

\* a poll has shown the progress of the second task after the first, which
\* had yielded events, was cancelled and has stopped
C11_Witness ==
    /\ last_call = "recent_events"
    /\ Len(tasks) = 2
    /\ export_tasks = <<2>>
    /\ tasks[1].cancel_calls = 1 /\ tasks[1].pc = "cancelled"
    /\ Len(tasks[1].yielded) >= 2
    /\ status = "Converting video"
    /\ tasks[2].pc = "y_loop" /\ progress = Last(tasks[2].yielded).percent

\* the background process of the task has not ended
Running(t) == t.pc \notin Ended

\* C12 as claimed: two tasks whose processes are still running never hold
\* the same output file open at the same time.
C12_Original ==
    \A i, j \in TaskIds :
        (/\ i # j
         /\ Running(tasks[i]) /\ tasks[i].container_open
         /\ Running(tasks[j]) /\ tasks[j].container_open)
            => tasks[i].target_video_loc # tasks[j].target_video_loc

-----------------------------------------------------------------------------
(* Properties of the encoder, the progress events and the timestamps *)

\* C13: packets are muxed in the order of the frames passed to the encoder,
\* and once the container has been closed every frame passed to the encoder
\* has been muxed and the encoder holds none.
C13_FlushedBeforeClose ==
    \A i \in TaskIds :
        /\ tasks[i].muxed \o tasks[i].enc_buf = tasks[i].encoded
        /\ (tasks[i].container_opened /\ ~tasks[i].container_open) =>
               (tasks[i].enc_buf = <<>> /\ tasks[i].muxed = tasks[i].encoded)

\* the container was closed after an encoder that holds frames back had been
\* given several frames
C13_Witness ==
    \E i \in TaskIds :
        /\ tasks[i].container_opened /\ ~tasks[i].container_open
        /\ tasks[i].enc_delay > 0
        /\ Len(tasks[i].encoded) >= 2

\* C14: the j-th progress event of the frame loop is yielded when the current
\* index is export_from_index + 10 * j, after at least 10 * j + 1 frames were
\* processed, and its percent is 10 + 90 * (10 * j) / (to - from), a value
\* from 10 to 100.
C14_LoopProgress ==
    \A i \in TaskIds :
        \A k \in 2..Len(tasks[i].yielded) :
            tasks[i].yielded[k].status = "Converting video" =>
                LET t == tasks[i]
                    span == t.export_to_index - t.export_from_index
                    cur == t.export_from_index + (k - 1) * update_rate
                    pct == t.yielded[k].percent
                IN  /\ span > 0
                    /\ cur <= t.current_frame_idx
                    /\ Len(t.encoded) >= (k - 1) * update_rate + 1
                    /\ PctEq(pct, Pct(10 * span + 90 * (cur - t.export_from_index),
                                      span))
                    /\ PctLeq(Pct(10, 1), pct) /\ PctLeq(pct, Pct(100, 1))

\* two progress events of the frame loop, the second below 100
C14_Witness ==
    \E i \in TaskIds :
        /\ Len(tasks[i].yielded) >= 3
        /\ tasks[i].yielded[3].status = "Converting video"
        /\ ~PctEq(tasks[i].yielded[3].percent, Pct(100, 1))
        /\ tasks[i].export_from_index > 0

LastReporting == CHOOSE k \in Reporting : \A m \in Reporting : m <= k

\* C15: a recent_events() poll with no cancelled task in the registry leaves
\* the status and the progress at the last event fetched from the last
\* registered task that had events, and unchanged if none had.
C15_PollTakesLast ==
    [][(RecentEvents /\ \A i \in Registered : ~tasks[i].canceled) =>
          IF Reporting = {}
          THEN status' = status /\ progress' = progress
          ELSE /\ status' = Last(tasks[export_tasks[LastReporting]].pipe).status
               /\ progress' = Last(tasks[export_tasks[LastReporting]].pipe).percent]_vars

\* after a poll of two registered tasks the state shows the event of the
\* second, though the first has got further
C15_Witness ==
    /\ last_call = "recent_events"
    /\ export_tasks = <<1, 2>>
    /\ tasks[1].pc = "y_done" /\ tasks[1].pipe = <<>>
    /\ tasks[2].pc = "y_loop" /\ tasks[2].pipe = <<>>
    /\ status = "Converting video"
    /\ progress = Last(tasks[2].yielded).percent

\* the completion event of a registered task that has ended is the state shown
ShowsCompletion ==
    /\ status = "Converting video completed"
    /\ progress = Pct(100, 1)
    /\ \E i \in Registered : Completed(tasks[i]) /\ tasks[i].pipe = <<>>

\* C16: a poll while the completion event of a registered task is shown and
\* no registered task has new events changes neither the status, the progress
\* nor the registry; and a task seen to complete leaves the registry only by
\* cancel(), called directly, by cleanup() or by a should_export notification.
C16_CompletedStays ==
    [][/\ (RecentEvents /\ ShowsCompletion /\ Reporting = {}) =>
              UNCHANGED <<status, progress, export_tasks>>
       /\ \/ \A i \in Registered : tasks[i].completed => i \in Registered'
          \/ Cancel
          \/ Cleanup
          \/ Notified("should_export")]_vars

\* a poll has seen a registered task complete and shows its completion event
C16_Witness ==
    /\ last_call = "recent_events"
    /\ ShowsCompletion
    /\ \E i \in Registered : tasks[i].completed

\* C17: the frame loop never divides by zero, and when it has computed a
\* fractional progress the divisor export_to_index - export_from_index is
\* strictly positive.
C17_PositiveDivisor ==
    \A i \in TaskIds :
        /\ tasks[i].pc # "raised"
        /\ tasks[i].pc = "y_loop" =>
               tasks[i].export_to_index > tasks[i].export_from_index

\* a run over a single frame has encoded it and left the loop
C17_Witness ==
    \E i \in TaskIds :
        /\ tasks[i].export_to_index = tasks[i].export_from_index
        /\ tasks[i].encoded = <<tasks[i].export_from_index>>
        /\ Completed(tasks[i])

TerminalEvent(t) ==
    t.yielded # <<>> /\ Last(t.yielded) \in {FailureEvent, CompletionEvent}

\* C18: every run that is not cancelled eventually finishes, its last event
\* being the failure at 0 or the completion at 100.
C18_Terminates ==
    <>(\A i \in TaskIds :
           \/ tasks[i].cancel_calls > 0
           \/ tasks[i].pc = "done" /\ TerminalEvent(tasks[i]))

\* a run on a source that ended inside the range has drained a delaying
\* encoder and completed
C18_Witness ==
    \E i \in TaskIds :
        /\ tasks[i].cancel_calls = 0
        /\ Completed(tasks[i]) /\ Last(tasks[i].yielded) = CompletionEvent
        /\ tasks[i].eos /\ ~HasAllFrames(tasks[i])
        /\ tasks[i].enc_delay > 0
        /\ tasks[i].encoded # <<>> /\ tasks[i].muxed = tasks[i].encoded

\* C19: the pts of an encoded frame is the truncated number of 1/65535 s ticks
\* between the origin and the frame's timestamp, is not negative and is not
\* less than the pts of the frame encoded before it.
C19_PtsMonotone ==
    \A i \in TaskIds :
        tasks[i].encoded # <<>> =>
            /\ tasks[i].pts >= 0
            /\ tasks[i].prev_pts # NoTime => tasks[i].prev_pts <= tasks[i].pts
            /\ tasks[i].decoded = Len(tasks[i].encoded) =>
                   LET ticks == (tasks[i].frame_ts - tasks[i].start_time)
                                    * time_base_den
                   IN  /\ tasks[i].pts * TsPerSecond <= ticks
                       /\ ticks < (tasks[i].pts + 1) * TsPerSecond

C19_Witness ==
    \E i \in TaskIds :
        /\ Len(tasks[i].encoded) >= 3
        /\ tasks[i].prev_pts > 0
        /\ tasks[i].pts > tasks[i].prev_pts

====
